---- MODULE Spec2Model ----
(***************************************************************************)
(* A model of the AssetLoader preloading queue (mattdesl/assetloader).     *)
(*                                                                         *)
(* JavaScript strings are modelled as sequences of one-character strings,  *)
(* so that slice/indexOf/lastIndexOf/split/toLowerCase are computed and    *)
(* not assumed.  JavaScript arrays are sequences; array indices are        *)
(* 1-based here and "not found" (-1 in the code) is 0.  Descriptor objects *)
(* live in a heap (object id -> fields), and the assets and tasks arrays   *)
(* hold object ids, as the arrays of the code hold references.             *)
(***************************************************************************)
EXTENDS Integers, Sequences, FiniteSets, TLC

(* ------------------------------ bounds -------------------------------- *)

\* the number of loads that may be outstanding (started, not yet called back)
MaxInflight == 2

(* --------------------------- JavaScript values ------------------------ *)

\* the string s of the code, as a sequence of characters
Str(s) ==
  CASE s = ""      -> <<>>
    [] s = "a.png" -> <<"a", ".", "p", "n", "g">>
    [] s = "B.GIF" -> <<"B", ".", "G", "I", "F">>
    [] s = "sprite" -> <<"s", "p", "r", "i", "t", "e">>
    [] s = "c.ogg" -> <<"c", ".", "o", "g", "g">>
    [] s = "d.jpeg" -> <<"d", ".", "j", "p", "e", "g">>
    [] s = "data:" -> <<"d", "a", "t", "a", ":">>
    [] s = "text/plain" -> <<"t", "e", "x", "t", "/", "p", "l", "a", "i", "n">>
    [] s = "txt"   -> <<"t", "x", "t">>
    [] s = "png"   -> <<"p", "n", "g">>
    [] s = "gif"   -> <<"g", "i", "f">>
    [] s = "jpg"   -> <<"j", "p", "g">>
    [] s = "jpeg"  -> <<"j", "p", "e", "g">>
    [] s = "image" -> <<"i", "m", "a", "g", "e">>
    [] s = "json"  -> <<"j", "s", "o", "n">>

\* null, where the code returns null in place of a string
Null == <<"null">>

UpperCase == <<"A", "B", "C", "D", "E", "F", "G", "H", "I", "J", "K", "L", "M",
               "N", "O", "P", "Q", "R", "S", "T", "U", "V", "W", "X", "Y", "Z">>

LowerCase == <<"a", "b", "c", "d", "e", "f", "g", "h", "i", "j", "k", "l", "m",
               "n", "o", "p", "q", "r", "s", "t", "u", "v", "w", "x", "y", "z">>

\* the lower-case letter of each upper-case letter
LowerOf ==
  [c \in {UpperCase[i] : i \in 1..Len(UpperCase)} |->
     LowerCase[CHOOSE i \in 1..Len(UpperCase) : UpperCase[i] = c]]

\* String.prototype.toLowerCase, one character
LowerChar(c) == IF c \in DOMAIN LowerOf THEN LowerOf[c] ELSE c

\* String.prototype.toLowerCase
toLowerCase(str) == [i \in 1..Len(str) |-> LowerChar(str[i])]

\* str.indexOf(c): the first 1-based position of character c, 0 if none
StrIndexOf(str, c) ==
  IF \E i \in 1..Len(str) : str[i] = c
    THEN CHOOSE i \in 1..Len(str) : str[i] = c /\ \A j \in 1..(i - 1) : str[j] # c
    ELSE 0

\* str.lastIndexOf(c): the last 1-based position of character c, 0 if none
StrLastIndexOf(str, c) ==
  IF \E i \in 1..Len(str) : str[i] = c
    THEN CHOOSE i \in 1..Len(str) : str[i] = c /\ \A j \in (i + 1)..Len(str) : str[j] # c
    ELSE 0

\* str.slice(0, n): the first n characters (all of str when it is shorter)
Take(str, n) == SubSeq(str, 1, IF n < Len(str) THEN n ELSE Len(str))

\* str.slice(n): str without its first n characters
Drop(str, n) == SubSeq(str, n + 1, Len(str))

\* str.split(c)[0]: the part before the first c (all of str when there is none)
SplitFirst(str, c) ==
  IF StrIndexOf(str, c) = 0 THEN str ELSE Take(str, StrIndexOf(str, c) - 1)

\* str.split(c).pop(): the part after the last c (all of str when there is none)
SplitLast(str, c) == Drop(str, StrLastIndexOf(str, c))

(* ------------------------------ Status -------------------------------- *)

\* the value of a property that an object does not have
Undefined == "undefined"

Status ==
  [QUEUED |-> "QUEUED", LOADING |-> "LOADING",
   LOAD_SUCCESS |-> "LOAD_SUCCESS", LOAD_FAIL |-> "LOAD_FAIL"]

\* AssetLoader.Status.<key>: a property read, undefined for a missing key
StatusOf(key) == IF key \in DOMAIN Status THEN Status[key] ELSE Undefined

(* ------------------------- loader plugins ----------------------------- *)

\* the default image loader: its static fields
ImageLoader ==
  [id |-> "ImageLoader",
   extensions |-> <<Str("png"), Str("gif"), Str("jpg"), Str("jpeg")>>,
   mediaType |-> Str("image")]

\* a caller's plugin that declares no extensions (an input of registerLoader)
BareLoader ==
  [id |-> "BareLoader", extensions |-> <<>>, mediaType |-> <<>>]

\* the plugins a caller hands to registerLoader
Plugins == {ImageLoader, BareLoader}

\* a renderer-independent plugin, the kind registerCommonLoader is meant for
JSONLoader ==
  [id |-> "JSONLoader", extensions |-> <<Str("json")>>, mediaType |-> <<>>]

\* an image loader specific to one renderer
WebGLImageLoader ==
  [id |-> "WebGLImageLoader", extensions |-> <<Str("png"), Str("jpg")>>,
   mediaType |-> Str("image")]

\* the plugins a caller hands to registerCommonLoader
CommonPlugins == Plugins \cup {JSONLoader, WebGLImageLoader}

\* the keys the loop of registerLoader assigns for one loader
RegistryKeys(extensions, mediaType) ==
  {extensions[i] : i \in 1..Len(extensions)}
    \cup (IF mediaType # <<>>
            THEN {mediaType \o <<"/">> \o extensions[i] : i \in 1..Len(extensions)}
            ELSE {})

\* registerLoader(loaders, loaderFunc, extensions, mediaType): the registry after
\* the call; every key of the loader maps to it, the other keys are kept
registerLoaderInto(reg, loaderFunc, extensions, mediaType) ==
  LET keys == RegistryKeys(extensions, mediaType)
  IN  [k \in (DOMAIN reg) \cup keys |-> IF k \in keys THEN loaderFunc ELSE reg[k]]

(* --------------------------- ExtensionResolver ------------------------ *)

\* __getDataType(str): the loader key of a data URI, Null for any other string
getDataType(str) ==
  IF toLowerCase(Take(str, Len(Str("data:")))) = Str("data:")
    THEN LET data == Drop(str, Len(Str("data:")))
             sepIdx == StrIndexOf(data, ",")
             info == SplitFirst(Take(data, sepIdx - 1), ";")
         IN  IF sepIdx = 0 THEN Null
             ELSE IF info = <<>> \/ toLowerCase(info) = Str("text/plain")
               THEN Str("txt")
               ELSE toLowerCase(SplitLast(info, "/"))
    ELSE Null

\* __extension(str): the lower-case text after the last '.', "" when there is none
extension(str) ==
  LET idx == StrLastIndexOf(str, ".")
  IN  IF idx = 0 \/ idx = 1 \/ idx = Len(str) THEN <<>>
      ELSE toLowerCase(Drop(str, idx))

(* ------------------------------ the queue ----------------------------- *)

VARIABLES
  assets,      \* this.assets: the descriptors of the queue (object ids)
  tasks,       \* this.tasks: the descriptors not yet started (object ids)
  heap,        \* the Descriptor objects: id -> [name, loadFunc, value, status]
  loadCount,   \* this.__loadCount (the remaining property)
  totalItems,  \* this.__totalItems (the total property)
  loading,     \* this.loading: never set by the constructor
  loaders,     \* this.loaders: key -> loader id
  inflight,    \* the loads started whose loader has not called back yet
  log,         \* what a listener added to the four signals has heard so far
  popped,      \* a task was shifted off this.tasks since the constructor, the
               \* last removeAll() or the last invalidate()
  lastSignal,  \* which of loadStarted and loadFinished dispatched last, "none"
               \* when neither has dispatched since the constructor
  commonLoaders, \* AssetLoader.commonLoaders: key -> loader id
  otherLoaders   \* this.loaders of a second queue

vars ==
  <<assets, tasks, heap, loadCount, totalItems, loading, loaders, inflight, log,
    popped, lastSignal, commonLoaders, otherLoaders>>

\* the queue as a call finds it, as one value, so that a method can call
\* another; events are those the four signals dispatch during the call, in order
This ==
  [assets |-> assets, tasks |-> tasks, heap |-> heap, loadCount |-> loadCount,
   totalItems |-> totalItems, loading |-> loading, loaders |-> loaders,
   events |-> <<>>, inflight |-> inflight]

\* the variables take the fields of q, the queue as a call leaves it
Becomes(q) ==
  /\ assets' = q.assets
  /\ tasks' = q.tasks
  /\ heap' = q.heap
  /\ loadCount' = q.loadCount
  /\ totalItems' = q.totalItems
  /\ loading' = q.loading
  /\ loaders' = q.loaders
  /\ inflight' = q.inflight

\* a call that returned val
Returned(val) == [kind |-> "return", val |-> val]

\* a call that threw the message msg
Threw(msg) == [kind |-> "throw", val |-> msg]

\* the least number from 1 that is not in the set: a name for a new object
Fresh(used) == CHOOSE n \in 1..(Cardinality(used) + 1) :
                 n \notin used /\ \A m \in 1..(n - 1) : m \in used

\* JavaScript truthiness of this.loading
Truthy(v) == v = "true"

\* the elements of a list
Range(list) == {list[i] : i \in 1..Len(list)}

\* list.splice(idx, 1): the list without its element at idx
Splice(list, idx) == SubSeq(list, 1, idx - 1) \o SubSeq(list, idx + 1, Len(list))

\* indexOf(list, name): the first position of a descriptor named name, 0 if none
indexOf(q, list, name) ==
  IF \E i \in 1..Len(list) : q.heap[list[i]].name = name
    THEN CHOOSE i \in 1..Len(list) :
           /\ q.heap[list[i]].name = name
           /\ \A j \in 1..(i - 1) : q.heap[list[j]].name # name
    ELSE 0

\* the heap without the descriptors that neither list refers to any more
Collect(q) ==
  [q EXCEPT !.heap = [o \in Range(q.assets) \cup Range(q.tasks) |-> q.heap[o]]]

\* getDescriptor(name): the descriptor's object id, 0 for null
getDescriptor(q, name) ==
  IF indexOf(q, q.assets, name) # 0 THEN q.assets[indexOf(q, q.assets, name)] ELSE 0

\* getStatus(name): the descriptor's status, "null" when there is none
getStatus(q, name) ==
  IF getDescriptor(q, name) # 0 THEN q.heap[getDescriptor(q, name)].status ELSE "null"

\* isLoaded(name)
isLoaded(q, name) == getStatus(q, name) = StatusOf("LOAD_SUCCESS")

(* ------------------------------ methods ------------------------------- *)
(* Each method is an operator from the queue before the call to            *)
(* [q |-> the queue after it, ret |-> what it returned or threw].          *)

\* signal.dispatch(ev): the event joins those the call has dispatched
Dispatch(q, ev) == [q EXCEPT !.events = Append(@, ev)]

\* the constructor
initialize ==
  [assets |-> <<>>, tasks |-> <<>>, heap |-> [o \in {} |-> 0],
   loadCount |-> 0, totalItems |-> 0, loading |-> Undefined,
   loaders |-> registerLoaderInto(commonLoaders, ImageLoader.id,
                                  ImageLoader.extensions, ImageLoader.mediaType),
   events |-> <<>>, inflight |-> [c \in {} |-> 0]]

\* AssetLoader.registerCommonLoader(loader): reg is AssetLoader.commonLoaders
registerCommonLoader(reg, loader) ==
  IF Len(loader.extensions) = 0
    THEN [reg |-> reg,
          ret |-> Threw("must specify at least one extension for the loader")]
    ELSE [reg |-> registerLoaderInto(reg, loader.id, loader.extensions,
                                     loader.mediaType),
          ret |-> Returned(Undefined)]

\* registerLoader(loader) of a queue
registerLoader(q, loader) ==
  IF Len(loader.extensions) = 0
    THEN [q |-> q,
          ret |-> Threw("must specify at least one extension for the loader")]
    ELSE [q |-> [q EXCEPT !.loaders =
                   registerLoaderInto(@, loader.id, loader.extensions, loader.mediaType)],
          ret |-> Returned(Undefined)]

\* new AssetLoader.Descriptor(name, loadFunc, value)
Descriptor(name, loadFunc, value) ==
  [name |-> name, loadFunc |-> loadFunc, value |-> value,
   status |-> StatusOf("QUEUED")]

\* addAs with the name looked up among the tasks, not among the assets
addAsChecksTasks(q, loader, name) ==
  IF name = <<>> THEN [q |-> q, ret |-> Threw("no name specified to load")]
  ELSE IF loader = Undefined
    THEN [q |-> q, ret |-> Threw("no loader specified for asset")]
  ELSE IF indexOf(q, q.tasks, name) # 0
    THEN [q |-> q, ret |-> Threw("asset already defined in asset manager")]
  ELSE LET obj == Fresh((DOMAIN q.heap) \cup {c.desc : c \in DOMAIN q.inflight})
       IN  [q |-> [q EXCEPT !.heap = [o \in (DOMAIN @) \cup {obj} |->
                                        IF o = obj THEN Descriptor(name, loader, obj)
                                        ELSE @[o]],
                            !.assets = Append(@, obj),
                            !.tasks = Append(@, obj),
                            !.loadCount = @ + 1,
                            !.totalItems = @ + 1],
            ret |-> Returned(obj)]

\* addAs(loader, name): the loader is called once and makes a new value and
\* load function; the new descriptor and its value get a number that no
\* descriptor of the queue and no outstanding load bears; the image loader
\* always returns a load function, so the check of retObj.load passes
addAs(q, loader, name) ==
  IF name = <<>> THEN [q |-> q, ret |-> Threw("no name specified to load")]
  ELSE IF loader = Undefined
    THEN [q |-> q, ret |-> Threw("no loader specified for asset")]
  ELSE IF indexOf(q, q.assets, name) # 0
    THEN [q |-> q, ret |-> Threw("asset already defined in asset manager")]
  ELSE LET obj == Fresh((DOMAIN q.heap) \cup {c.desc : c \in DOMAIN q.inflight})
       IN  [q |-> [q EXCEPT !.heap = [o \in (DOMAIN @) \cup {obj} |->
                                        IF o = obj THEN Descriptor(name, loader, obj)
                                        ELSE @[o]],
                            !.assets = Append(@, obj),
                            !.tasks = Append(@, obj),
                            !.loadCount = @ + 1,
                            !.totalItems = @ + 1],
            ret |-> Returned(obj)]

\* add(name)
add(q, name) ==
  IF name = <<>> THEN [q |-> q, ret |-> Threw("No asset name specified for add()")]
  ELSE LET dataType == getDataType(name)
           ext == IF dataType = Null THEN extension(name) ELSE dataType
       IN  IF ext = <<>>
             THEN [q |-> q,
                   ret |-> Threw("Asset name does not have a file extension")]
           ELSE IF ext \notin DOMAIN q.loaders
             THEN [q |-> q, ret |-> Threw("No known loader for extension")]
           ELSE addAs(q, q.loaders[ext], name)

\* __loadCallback with the count taken before the descriptor is looked up
loadCallbackCountsFirst(q, name, success) ==
  LET assetIdx == indexOf(q, q.assets, name)
      counted == [q EXCEPT !.loadCount = @ - 1]
      settled == [counted EXCEPT !.heap[q.assets[assetIdx]].status =
                                    IF success THEN StatusOf("LOAD_SUCCESS")
                                               ELSE StatusOf("LOAD_FAILED")]
      current == counted.totalItems - counted.loadCount
      total == counted.totalItems
      erred == IF ~success
                 THEN Dispatch(settled, [type |-> "error", name |-> name,
                                         current |-> current, total |-> total])
                 ELSE settled
      progressed == Dispatch(erred, [type |-> "progress", name |-> name,
                                     current |-> current, total |-> total])
  IN  IF assetIdx = 0 THEN counted
      ELSE IF progressed.loadCount = 0
        THEN Dispatch([progressed EXCEPT !.loading = "false"],
                      [type |-> "finished", current |-> current, total |-> total])
        ELSE progressed

\* __loadCallback with a failed load left uncounted
loadCallbackSkipsFailure(q, name, success) ==
  LET assetIdx == indexOf(q, q.assets, name)
      counted == [q EXCEPT !.loadCount = IF success THEN @ - 1 ELSE @,
                           !.heap[q.assets[assetIdx]].status =
                              IF success THEN StatusOf("LOAD_SUCCESS")
                                         ELSE StatusOf("LOAD_FAILED")]
      current == counted.totalItems - counted.loadCount
      total == counted.totalItems
      erred == IF ~success
                 THEN Dispatch(counted, [type |-> "error", name |-> name,
                                         current |-> current, total |-> total])
                 ELSE counted
      progressed == Dispatch(erred, [type |-> "progress", name |-> name,
                                     current |-> current, total |-> total])
  IN  IF assetIdx = 0 THEN q
      ELSE IF progressed.loadCount = 0
        THEN Dispatch([progressed EXCEPT !.loading = "false"],
                      [type |-> "finished", current |-> current, total |-> total])
        ELSE progressed

\* __loadCallback with the error signal dispatched after the progress signal
loadCallbackErrorLast(q, name, success) ==
  LET assetIdx == indexOf(q, q.assets, name)
      counted == [q EXCEPT !.loadCount = @ - 1,
                           !.heap[q.assets[assetIdx]].status =
                              IF success THEN StatusOf("LOAD_SUCCESS")
                                         ELSE StatusOf("LOAD_FAILED")]
      current == counted.totalItems - counted.loadCount
      total == counted.totalItems
      progressed == Dispatch(counted, [type |-> "progress", name |-> name,
                                       current |-> current, total |-> total])
      erred == IF ~success
                 THEN Dispatch(progressed, [type |-> "error", name |-> name,
                                            current |-> current, total |-> total])
                 ELSE progressed
  IN  IF assetIdx = 0 THEN q
      ELSE IF erred.loadCount = 0
        THEN Dispatch([erred EXCEPT !.loading = "false"],
                      [type |-> "finished", current |-> current, total |-> total])
        ELSE erred

\* __loadCallback(name, success)
loadCallback(q, name, success) ==
  LET assetIdx == indexOf(q, q.assets, name)
      counted == [q EXCEPT !.loadCount = @ - 1,
                           !.heap[q.assets[assetIdx]].status =
                              IF success THEN StatusOf("LOAD_SUCCESS")
                                         ELSE StatusOf("LOAD_FAILED")]
      current == counted.totalItems - counted.loadCount
      total == counted.totalItems
      erred == IF ~success
                 THEN Dispatch(counted, [type |-> "error", name |-> name,
                                         current |-> current, total |-> total])
                 ELSE counted
      progressed == Dispatch(erred, [type |-> "progress", name |-> name,
                                     current |-> current, total |-> total])
  IN  IF assetIdx = 0 THEN q
      ELSE IF progressed.loadCount = 0
        THEN Dispatch([progressed EXCEPT !.loading = "false"],
                      [type |-> "finished", current |-> current, total |-> total])
        ELSE progressed

\* the outstanding loads with one more, c: a bag, as one descriptor may have
\* several loads outstanding
Started(loads, c) ==
  [d \in (DOMAIN loads) \cup {c} |->
     IF d \in DOMAIN loads THEN loads[d] + (IF d = c THEN 1 ELSE 0) ELSE 1]

\* the outstanding loads with one less of c
Ended(loads, c) ==
  [d \in {e \in DOMAIN loads : e # c \/ loads[e] > 1} |->
     IF d = c THEN loads[d] - 1 ELSE loads[d]]

\* the number of outstanding loads
Outstanding(loads) ==
  LET RECURSIVE Sum(_)
      Sum(S) == IF S = {} THEN 0
                ELSE LET d == CHOOSE e \in S : TRUE IN loads[d] + Sum(S \ {d})
  IN  Sum(DOMAIN loads)

\* update with the started signal dispatched whenever a task is started
updateAlwaysStarted(q) ==
  IF Len(q.tasks) = 0
    THEN [q |-> q, ret |-> Returned(IF q.loadCount = 0 THEN "true" ELSE "false")]
    ELSE LET started ==
               Dispatch([q EXCEPT !.loading = "true"],
                        [type |-> "started", current |-> 0, total |-> q.totalItems])
             nextTask == Head(started.tasks)
             called ==
               [started EXCEPT
                  !.tasks = Tail(@),
                  !.inflight = Started(@, [name |-> started.heap[nextTask].name,
                                           desc |-> nextTask])]
         IN  [q |-> called,
              ret |-> Returned(IF called.loadCount = 0 THEN "true" ELSE "false")]

\* update() that starts the last task of the list instead of the first
updateStartsLast(q) ==
  IF Len(q.tasks) = 0
    THEN [q |-> q,
          ret |-> Returned(IF q.loadCount = 0 THEN "true" ELSE "false")]
    ELSE LET started ==
               IF Len(q.tasks) = Len(q.assets)
                 THEN Dispatch([q EXCEPT !.loading = "true"],
                               [type |-> "started", current |-> 0,
                                total |-> q.totalItems])
                 ELSE q
             nextTask == started.tasks[Len(started.tasks)]
             called ==
               [started EXCEPT
                  !.tasks = SubSeq(@, 1, Len(@) - 1),
                  !.inflight = Started(@, [name |-> started.heap[nextTask].name,
                                           desc |-> nextTask])]
         IN  [q |-> called,
              ret |-> Returned(
                               IF called.loadCount = 0 THEN "true" ELSE "false")]

\* update(): the loader of the popped task is handed the two callbacks, which it
\* keeps until its load ends (inflight); desc is the descriptor the load was
\* started for, which the callbacks do not hold (they are bound to the name)
update(q) ==
  IF Len(q.tasks) = 0
    THEN [q |-> q,
          ret |-> Returned(IF q.loadCount = 0 THEN "true" ELSE "false")]
    ELSE LET started ==
               IF Len(q.tasks) = Len(q.assets)
                 THEN Dispatch([q EXCEPT !.loading = "true"],
                               [type |-> "started", current |-> 0,
                                total |-> q.totalItems])
                 ELSE q
             nextTask == Head(started.tasks)
             called ==
               [started EXCEPT
                  !.tasks = Tail(@),
                  !.inflight = Started(@, [name |-> started.heap[nextTask].name,
                                           desc |-> nextTask])]
         IN  [q |-> called,
              ret |-> Returned(
                               IF called.loadCount = 0 THEN "true" ELSE "false")]

\* load(): update() until no task is left
RECURSIVE load(_)
load(q) ==
  IF Len(q.tasks) > 0 THEN load(update(q).q)
  ELSE [q |-> q, ret |-> Returned(Undefined)]

\* remove(name) that dispatches finished whether or not the queue was loading
removeAlwaysFinishes(q, name) ==
  LET assetIdx == indexOf(q, q.assets, name)
      asset == q.assets[assetIdx]
      taskIdx == indexOf(q, q.tasks, name)
      counted == [q EXCEPT !.assets = Splice(@, assetIdx),
                           !.totalItems = IF @ - 1 > 0 THEN @ - 1 ELSE 0,
                           !.loadCount = IF @ - 1 > 0 THEN @ - 1 ELSE 0,
                           !.tasks = IF taskIdx # 0 THEN Splice(@, taskIdx) ELSE @]
      finished ==
        IF counted.loadCount = 0
          THEN [Dispatch(counted, [type |-> "finished", current |-> 0,
                                   total |-> 0]) EXCEPT !.loading = "false"]
          ELSE counted
  IN  IF assetIdx = 0 THEN [q |-> q, ret |-> Returned("null")]
      ELSE [q |-> Collect(finished), ret |-> Returned(q.heap[asset].value)]

\* remove(name)
remove(q, name) ==
  LET assetIdx == indexOf(q, q.assets, name)
      asset == q.assets[assetIdx]
      taskIdx == indexOf(q, q.tasks, name)
      counted == [q EXCEPT !.assets = Splice(@, assetIdx),
                           !.totalItems = IF @ - 1 > 0 THEN @ - 1 ELSE 0,
                           !.loadCount = IF @ - 1 > 0 THEN @ - 1 ELSE 0,
                           !.tasks = IF taskIdx # 0 THEN Splice(@, taskIdx) ELSE @]
      finished ==
        IF counted.loadCount = 0
          THEN [(IF Truthy(counted.loading)
                   THEN Dispatch(counted, [type |-> "finished", current |-> 0,
                                           total |-> 0])
                   ELSE counted) EXCEPT !.loading = "false"]
          ELSE counted
  IN  IF assetIdx = 0 THEN [q |-> q, ret |-> Returned("null")]
      ELSE [q |-> Collect(finished), ret |-> Returned(q.heap[asset].value)]

\* removeAll()
removeAll(q) ==
  LET cleared == [q EXCEPT !.assets = <<>>, !.tasks = <<>>,
                           !.loadCount = 0, !.totalItems = 0]
      finished == IF Truthy(cleared.loading)
                    THEN Dispatch(cleared, [type |-> "finished", current |-> 0,
                                            total |-> 0])
                    ELSE cleared
  IN  [q |-> Collect([finished EXCEPT !.loading = "false"]),
       ret |-> Returned(Undefined)]

\* invalidate with the counts taken from the task list before it is rebuilt
invalidateCountsFirst(q) ==
  [q |-> [q EXCEPT !.heap = [o \in DOMAIN @ |->
                               IF o \in Range(q.assets)
                                 THEN [@[o] EXCEPT !.status = StatusOf("QUEUED")]
                                 ELSE @[o]],
                   !.tasks = q.assets,
                   !.loadCount = Len(q.tasks),
                   !.totalItems = Len(q.tasks)],
   ret |-> Returned(Undefined)]

\* invalidate()
invalidate(q) ==
  [q |-> [q EXCEPT !.heap = [o \in DOMAIN @ |->
                               IF o \in Range(q.assets)
                                 THEN [@[o] EXCEPT !.status = StatusOf("QUEUED")]
                                 ELSE @[o]],
                   !.tasks = q.assets,
                   !.loadCount = Len(q.assets),
                   !.totalItems = Len(q.assets)],
   ret |-> Returned(Undefined)]

(* ------------------------------ actions ------------------------------- *)

\* the names a caller passes to add and remove
Names == {Str("a.png"), Str("B.GIF")}

\* names that add refuses: no name, no extension, no loader for the extension
BadNames == {Str(""), Str("sprite"), Str("c.ogg")}

\* the names of the loading scenario
LoadNames == Names \cup {Str("d.jpeg")}

\* the queue that new AssetLoader() makes; no listener has heard anything
Init ==
  /\ commonLoaders = [k \in {} |-> "none"]
  /\ otherLoaders = initialize.loaders
  /\ assets = initialize.assets
  /\ tasks = initialize.tasks
  /\ heap = initialize.heap
  /\ loadCount = initialize.loadCount
  /\ totalItems = initialize.totalItems
  /\ loading = initialize.loading
  /\ loaders = initialize.loaders
  /\ inflight = initialize.inflight
  /\ log = <<>>
  /\ popped = FALSE
  /\ lastSignal = "none"

\* the types of the events of loadStarted and loadFinished among evs, in order
Signals(evs) ==
  LET dispatched == SelectSeq(evs, LAMBDA ev : ev.type \in {"started", "finished"})
  IN  [i \in 1..Len(dispatched) |-> dispatched[i].type]

\* which of loadStarted and loadFinished dispatched last, once evs were
\* dispatched after prev
LastSignal(prev, evs) ==
  IF Signals(evs) = <<>> THEN prev ELSE Signals(evs)[Len(Signals(evs))]

\* a call leaves the queue as q; a listener on the four signals, if there is
\* one, has heard what the call dispatched
Does(q, listener) ==
  /\ Becomes(q)
  /\ log' = IF listener THEN log \o q.events ELSE log
  /\ lastSignal' = LastSignal(lastSignal, q.events)
  /\ UNCHANGED <<commonLoaders, otherLoaders>>

\* a caller calls add(name)
Add(names, listener) ==
  /\ \E name \in names : Does(add(This, name).q, listener)
  /\ UNCHANGED popped

\* a caller calls update()
Update(listener) ==
  /\ Does(update(This).q, listener)
  /\ popped' = (popped \/ Len(tasks) > 0)

\* a caller calls load()
Load(listener) ==
  /\ Does(load(This).q, listener)
  /\ popped' = (popped \/ Len(tasks) > 0)

\* the queue after the loader of the outstanding load c has called the success
\* callback or the failure callback it was handed
Landed(q, c, success) ==
  [loadCallback(q, c.name, success) EXCEPT !.inflight = Ended(@, c)]

\* a loader ends a load: it calls one of its two callbacks, once
Callback(listener) ==
  /\ \E c \in DOMAIN inflight, success \in BOOLEAN :
       Does(Landed(This, c, success), listener)
  /\ UNCHANGED popped

\* a caller calls remove(name)
Remove ==
  /\ \E name \in Names : Does(remove(This, name).q, FALSE)
  /\ UNCHANGED popped

\* a caller calls removeAll()
RemoveAll ==
  /\ Does(removeAll(This).q, FALSE)
  /\ popped' = FALSE

\* a caller calls invalidate()
Invalidate ==
  /\ Does(invalidate(This).q, FALSE)
  /\ popped' = FALSE

\* a caller calls registerLoader(loader)
RegisterLoader ==
  /\ \E loader \in Plugins : Does(registerLoader(This, loader).q, FALSE)
  /\ UNCHANGED popped

\* any call, on a queue that nothing listens to
Next ==
  \/ Add(Names \cup BadNames, FALSE)
  \/ Outstanding(update(This).q.inflight) <= MaxInflight /\ Update(FALSE)
  \/ Outstanding(inflight) + Len(tasks) <= MaxInflight /\ Load(FALSE)
  \/ Callback(FALSE)
  \/ Remove
  \/ RemoveAll
  \/ Invalidate
  \/ RegisterLoader

Spec == Init /\ [][Next]_vars

\* the loading scenario, with a listener on the four signals: assets are added,
\* then update() and load() start them and their loaders call back
NextLoad ==
  \/ log = <<>> /\ Outstanding(inflight) = 0 /\ Add(LoadNames, TRUE)
  \/ Update(TRUE)
  \/ Load(TRUE)
  \/ Callback(TRUE)

LoadSpec == Init /\ [][NextLoad]_vars

\* registerCommonLoader writing to a registry that the queue shares
RegisterCommonLoaderShared ==
  /\ \E loader \in CommonPlugins :
       /\ commonLoaders' = registerCommonLoader(commonLoaders, loader).reg
       /\ loaders' = registerCommonLoader(loaders, loader).reg
  /\ UNCHANGED <<assets, tasks, heap, loadCount, totalItems, loading,
                 inflight, log, popped, lastSignal, otherLoaders>>

\* a caller calls AssetLoader.registerCommonLoader(loader)
RegisterCommonLoader ==
  /\ \E loader \in CommonPlugins :
       commonLoaders' = registerCommonLoader(commonLoaders, loader).reg
  /\ UNCHANGED <<assets, tasks, heap, loadCount, totalItems, loading, loaders,
                 inflight, log, popped, lastSignal, otherLoaders>>

\* a caller replaces the queue by a new AssetLoader()
Construct ==
  /\ Becomes(initialize)
  /\ log' = <<>>
  /\ popped' = FALSE
  /\ lastSignal' = "none"
  /\ UNCHANGED <<commonLoaders, otherLoaders>>

\* the second queue, as far as its registry goes
Other == [initialize EXCEPT !.loaders = otherLoaders]

\* a caller replaces the second queue by a new AssetLoader()
ConstructOther ==
  /\ otherLoaders' = initialize.loaders
  /\ UNCHANGED <<assets, tasks, heap, loadCount, totalItems, loading, loaders,
                 inflight, log, popped, lastSignal,
                 commonLoaders>>

\* a caller calls registerLoader(loader) of the second queue
RegisterLoaderOther ==
  /\ \E loader \in CommonPlugins :
       otherLoaders' = registerLoader(Other, loader).q.loaders
  /\ UNCHANGED <<assets, tasks, heap, loadCount, totalItems, loading, loaders,
                 inflight, log, popped, lastSignal,
                 commonLoaders>>

\* a caller calls registerLoader(loader) of the queue with any of the plugins
RegisterLoaderAny ==
  /\ \E loader \in CommonPlugins : Does(registerLoader(This, loader).q, FALSE)
  /\ UNCHANGED popped

\* the registries: common loaders are registered, queues are constructed and
\* register loaders of their own
NextRegistry ==
  \/ RegisterCommonLoader
  \/ Construct
  \/ ConstructOther
  \/ RegisterLoaderAny
  \/ RegisterLoaderOther

RegistrySpec == Init /\ [][NextRegistry]_vars

(* ------------------------------ properties ---------------------------- *)

\* an asset named name is in the queue q
InQueue(q, name) == indexOf(q, q.assets, name) # 0

\* the outstanding loads of q that were started for a descriptor still in q
LiveLoads(q) == {c \in DOMAIN q.inflight : c.desc \in Range(q.assets)}

\* every asset in the queue q has been loaded: none is pending and none has a
\* started load that has not called back
AllLoaded(q) == Len(q.tasks) = 0 /\ LiveLoads(q) = {}

\* the positions of the events of a type among evs
EventsOf(evs, type) == {i \in 1..Len(evs) : evs[i].type = type}

\* the queues that a call which may dispatch finished leaves: a callback, a
\* remove or a removeAll
AfterFinishingCall ==
  {Landed(This, c, success) : c \in DOMAIN inflight, success \in BOOLEAN}
    \cup {remove(This, name).q : name \in Names}
    \cup {removeAll(This).q}

\* the loading scenario is over: some asset was added, every asset was started
\* and every loader has called back
Quiescent == Len(assets) > 0 /\ Len(tasks) = 0 /\ Outstanding(inflight) = 0

\* C1: in the loading scenario (assets with distinct names added, then all
\* started by update()/load()), once every started loader has called back, in
\* any order and with any mix of successes and failures, remaining is 0, every
\* descriptor has left the QUEUED status, and the listener has heard exactly one
\* finished event, the last event, with current = total = the number of assets;
\* before that it has heard no finished event.
C1_OneFinishedWhenAllSettled ==
  /\ Quiescent =>
       /\ loadCount = 0
       /\ \A o \in Range(assets) : heap[o].status # StatusOf("QUEUED")
       /\ EventsOf(log, "finished") = {Len(log)}
       /\ log[Len(log)].current = log[Len(log)].total
       /\ log[Len(log)].total = Len(assets)
       /\ totalItems - loadCount = totalItems
  /\ ~Quiescent => EventsOf(log, "finished") = {}

\* C1 witness: three assets have settled, one of them by its failure callback,
\* and the one added first was not the first to settle
C1_Witness ==
  /\ Quiescent
  /\ Len(assets) = 3
  /\ EventsOf(log, "error") # {}
  /\ log[2].type = "progress"
  /\ log[2].name # heap[assets[1]].name

\* C2: whenever a call dispatches the finished event, it leaves a queue in which
\* every asset has been loaded: no task is pending and no asset in the queue has
\* a started load that has not called back.
C2_FinishedMeansAllLoaded ==
  \A q \in AfterFinishingCall : EventsOf(q.events, "finished") # {} => AllLoaded(q)

\* C3: remaining and total are never negative.
C3_CountersNonNegative == loadCount >= 0 /\ totalItems >= 0

\* C4: update() returns true exactly when it leaves a queue in which every asset
\* has been loaded.
C4_UpdateReturnsAllLoaded ==
  (update(This).ret.val = "true") <=> AllLoaded(update(This).q)

\* the number of loads of the loading scenario that have called back
LandedCount == Len(assets) - Len(tasks) - Outstanding(inflight)

\* C5: in the loading scenario with N assets, as long as every loader that has
\* called back has succeeded, the listener has heard: one started event
\* {current 0, total N} first, once a task has been started; then one progress
\* event per load that has called back, with current 1, 2, ... in this order and
\* total N; then, once all N have called back, one finished event {N, N}; and
\* nothing else.
C5_EventsOfASuccessfulLoad ==
  EventsOf(log, "error") = {} =>
    /\ Len(log) = (IF Len(tasks) < Len(assets) THEN 1 ELSE 0) + LandedCount
                    + (IF Quiescent THEN 1 ELSE 0)
    /\ Len(log) > 0 =>
         log[1] = [type |-> "started", current |-> 0, total |-> totalItems]
    /\ \A i \in 1..LandedCount :
         /\ log[i + 1].type = "progress"
         /\ log[i + 1].current = i
         /\ log[i + 1].total = totalItems
    /\ Quiescent =>
         log[Len(log)] = [type |-> "finished", current |-> totalItems,
                          total |-> totalItems]

\* C5 witness: three assets have all been loaded, no loader failed, and the one
\* added first was not the first to call back
C5_Witness ==
  /\ Quiescent
  /\ Len(assets) = 3
  /\ EventsOf(log, "error") = {}
  /\ log[2].name # heap[assets[1]].name

\* C6: the callback of a load whose name is that of no asset in the queue (the
\* asset was removed while the load was outstanding) changes nothing of the
\* queue and dispatches no event, whether it reports success or failure.
C6_CallbackAfterRemoveIsNoOp ==
  \A c \in DOMAIN inflight, success \in BOOLEAN :
    ~InQueue(This, c.name) =>
      Landed(This, c, success) = [This EXCEPT !.inflight = Ended(@, c)]

\* C6 witness: a load is outstanding whose asset was removed, while another
\* asset is still being loaded
C6_Witness ==
  \E c \in DOMAIN inflight :
    /\ ~InQueue(This, c.name)
    /\ loadCount > 0
    /\ Truthy(loading)

\* what C7 says of the callback of the outstanding load c landing on the queue
CallbackEvents(c, success) ==
  LET q == Landed(This, c, success)
      errors == EventsOf(q.events, "error")
  IN  IF success
        THEN errors = {} /\ isLoaded(q, c.name)
        ELSE /\ errors = {1}
             /\ q.events[1].name = c.name
             /\ Len(q.events) >= 2
             /\ q.events[2] = [q.events[1] EXCEPT !.type = "progress"]
             /\ ~isLoaded(q, c.name)

\* C7 as claimed: whenever a loader calls its failure callback, one error event
\* for the name is dispatched immediately before the progress event for the
\* name, with the same counts, and isLoaded(name) is false afterwards; whenever
\* it calls its success callback, no error event is dispatched and
\* isLoaded(name) is true afterwards.
C7_CallbackEventsAlways ==
  \A c \in DOMAIN inflight, success \in BOOLEAN : CallbackEvents(c, success)

\* C7 amended: the same, for a callback that lands while an asset of its name is
\* in the queue.
C7_CallbackEventsInQueue ==
  \A c \in DOMAIN inflight, success \in BOOLEAN :
    InQueue(This, c.name) => CallbackEvents(c, success)

\* C7 witness: a load is outstanding for an asset in the queue, beside an asset
\* that has already been loaded
C7_Witness ==
  /\ \E c \in DOMAIN inflight : InQueue(This, c.name)
  /\ \E o \in Range(assets) : heap[o].status = StatusOf("LOAD_SUCCESS")

\* C8: add of a name that is in the queue throws the duplicate error and leaves
\* the queue as it was, with no event dispatched; and no two descriptors of the
\* queue have the same name.
C8_DuplicateAddRefused ==
  /\ \A name \in Names :
       InQueue(This, name) =>
         add(This, name) =
           [q |-> This, ret |-> Threw("asset already defined in asset manager")]
  /\ \A i, j \in 1..Len(assets) :
       heap[assets[i]].name = heap[assets[j]].name => i = j

\* C8 witness: an asset is in the queue that is no longer among the tasks
C8_Witness ==
  \E name \in Names : InQueue(This, name) /\ indexOf(This, tasks, name) = 0

\* the status changes that C9 allows to a descriptor, apart from invalidate()
StatusStep(old, new) ==
  \/ old = new
  \/ old = StatusOf("QUEUED") /\ new = StatusOf("LOADING")
  \/ old = StatusOf("LOADING") /\ new \in {StatusOf("LOAD_SUCCESS"), StatusOf("LOAD_FAIL"),
                                           StatusOf("LOAD_FAILED")}

\* C9: a descriptor's status changes only from QUEUED to LOADING, from LOADING
\* to the success or the failure status, or to QUEUED by invalidate(); and a
\* descriptor of the queue whose load is outstanding has the status LOADING.
C9_StatusTransitions ==
  [][/\ \A o \in (DOMAIN heap) \cap (DOMAIN heap') :
          \/ StatusStep(heap[o].status, heap'[o].status)
          \/ heap'[o].status = StatusOf("QUEUED") /\ Invalidate
     /\ \A c \in DOMAIN inflight' :
          c.desc \in Range(assets') /\ c.desc \notin Range(tasks') =>
            heap'[c.desc].status = StatusOf("LOADING")]_vars

\* every asset of the queue has settled: there is one, none is pending, none
\* has an outstanding load, and each has left the QUEUED status
FullyLoaded ==
  /\ Len(assets) > 0
  /\ AllLoaded(This)
  /\ \A o \in Range(assets) : heap[o].status # StatusOf("QUEUED")

\* C10: invalidate() after a full load sets every descriptor's status to
\* QUEUED, makes the task list the asset list, in its order, and remaining the
\* total; it leaves total, the asset list and every descriptor's name, value
\* and load function as they were, destroys no descriptor and dispatches no
\* event.
C10_InvalidateAfterFullLoad ==
  FullyLoaded =>
    LET q == invalidate(This).q
    IN  /\ q.assets = assets
        /\ q.tasks = assets
        /\ q.totalItems = totalItems
        /\ q.loadCount = totalItems
        /\ q.totalItems = Len(assets)
        /\ DOMAIN q.heap = DOMAIN heap
        /\ \A o \in Range(assets) :
             q.heap[o] = [heap[o] EXCEPT !.status = StatusOf("QUEUED")]
        /\ q.events = <<>>
        /\ q.loading = loading /\ q.loaders = loaders /\ q.inflight = inflight

\* C10 witness: two assets have settled, one loaded and one failed
C10_Witness ==
  /\ FullyLoaded
  /\ Len(assets) = 2
  /\ \E o \in Range(assets) : heap[o].status = StatusOf("LOAD_SUCCESS")
  /\ \E o \in Range(assets) : heap[o].status = StatusOf("LOAD_FAILED")

\* list without the descriptors of a name, the others in their order
WithoutName(q, list, name) ==
  SelectSeq(list, LAMBDA o : q.heap[o].name # name)

RECURSIVE StartEach(_, _, _)
StartEach(q, loads, list) ==
  IF list = <<>> THEN loads
  ELSE StartEach(q, Started(loads, [name |-> q.heap[Head(list)].name,
                                    desc |-> Head(list)]), Tail(list))

\* q but for the events, the loading flag and the fields given apart
SameButStarts(q, p) ==
  /\ q.assets = p.assets /\ q.heap = p.heap /\ q.loaders = p.loaders
  /\ q.loadCount = p.loadCount /\ q.totalItems = p.totalItems

\* C12: update() with a task pending starts exactly one load, that of the first
\* descriptor of the task list, and takes this descriptor out of the list. The
\* task list holds descriptors of the asset list in the order of their adds,
\* each once, so that a descriptor is started at most once until it is added
\* again or invalidate() puts it back; no callback, remove or removeAll puts a
\* descriptor into the list. load() starts one load for every pending
\* descriptor and returns with the task list empty, no callback having landed:
\* remaining, total and every descriptor are as before.
C12_StartsInOrder ==
  /\ LET pending == Range(tasks)
     IN  /\ tasks = SelectSeq(assets, LAMBDA o : o \in pending)
         /\ \A c \in DOMAIN inflight, success \in BOOLEAN :
              Range(Landed(This, c, success).tasks) \subseteq pending
         /\ \A name \in Names : Range(remove(This, name).q.tasks) \subseteq pending
         /\ Range(removeAll(This).q.tasks) \subseteq pending
  /\ Cardinality(Range(assets)) = Len(assets)
  /\ Len(tasks) > 0 =>
       LET q == update(This).q
       IN  /\ q.tasks = Tail(tasks)
           /\ Head(tasks) \notin Range(q.tasks)
           /\ q.inflight = Started(inflight, [name |-> heap[Head(tasks)].name,
                                              desc |-> Head(tasks)])
           /\ Outstanding(q.inflight) = Outstanding(inflight) + 1
           /\ SameButStarts(q, This)
  /\ LET r == load(This)
     IN  /\ r.q.tasks = <<>>
         /\ r.q.inflight = StartEach(This, inflight, tasks)
         /\ Outstanding(r.q.inflight) = Outstanding(inflight) + Len(tasks)
         /\ SameButStarts(r.q, This)
         /\ r.ret = Returned(Undefined)

\* C12 witness: of two assets the one added first has been started and has not
\* called back, the other is the one pending
C12_Witness ==
  /\ Len(assets) = 2
  /\ tasks = <<assets[2]>>
  /\ \E c \in DOMAIN inflight : c.desc = assets[1]
  /\ Outstanding(inflight) = 1

\* C13: update() with a task pending dispatches started, with current 0 and the
\* total, and sets the loading flag exactly when no task has been started since
\* the constructor, the last removeAll() or the last invalidate(); otherwise it
\* dispatches nothing and leaves the flag as it was.
C13_StartedIffNothingPopped ==
  Len(tasks) > 0 =>
    LET q == update(This).q
    IN  IF ~popped
          THEN /\ q.events = <<[type |-> "started", current |-> 0,
                                 total |-> totalItems]>>
               /\ q.loading = "true"
          ELSE /\ q.events = <<>>
               /\ q.loading = loading

\* C14: the loader registries are isolated. No call changes two of the three
\* registries (the common one, the queue's, the second queue's):
\* registerCommonLoader changes no queue's registry, and registerLoader of a
\* queue changes neither the common registry nor the registry of the other
\* queue.
C14_RegistriesIsolated ==
  [][/\ commonLoaders' # commonLoaders =>
          loaders' = loaders /\ otherLoaders' = otherLoaders
     /\ loaders' # loaders =>
          commonLoaders' = commonLoaders /\ otherLoaders' = otherLoaders
     /\ otherLoaders' # otherLoaders =>
          commonLoaders' = commonLoaders /\ loaders' = loaders
     /\ RegisterCommonLoader => loaders' = loaders /\ otherLoaders' = otherLoaders
     /\ RegisterLoaderAny =>
          commonLoaders' = commonLoaders /\ otherLoaders' = otherLoaders
     /\ RegisterLoaderOther =>
          commonLoaders' = commonLoaders /\ loaders' = loaders]_vars

\* C14 witness: a common loader for json was registered after the queue was
\* constructed, and the two queues have registered different loaders for png
C14_Witness ==
  /\ Str("json") \in DOMAIN commonLoaders
  /\ Str("json") \notin DOMAIN loaders
  /\ loaders[Str("png")] # otherLoaders[Str("png")]
  /\ commonLoaders[Str("json")] = JSONLoader.id

\* the extension keys of a registry: those that are no mediaType/extension key
ExtensionKeys(reg) == {k \in DOMAIN reg : StrIndexOf(k, "/") = 0}

\* C15: a new queue uses the common loaders: on a queue just constructed, for
\* every extension key e of the common registry, add() of a name with the
\* extension e makes a descriptor whose loader is the one the common registry
\* holds for e.
C15_NewQueueUsesCommonLoaders ==
  [][Construct =>
       \A e \in ExtensionKeys(commonLoaders) :
         LET r == add(This', <<"x", ".">> \o e)
         IN  /\ r.ret.kind = "return"
             /\ r.q.heap[r.ret.val].loadFunc = commonLoaders[e]]_vars

\* the descriptors of the asset list that are not resolved: pending, or with a
\* started load that has not called back
Unresolved ==
  {o \in Range(assets) :
     o \in Range(tasks) \/ \E c \in DOMAIN inflight : c.desc = o}

\* C16: remaining is the number of assets of the queue that are not resolved.
C16_RemainingCountsUnresolved == loadCount = Cardinality(Unresolved)

\* the queues that a call which may dispatch an event leaves; no such call
\* changes the asset list after it has dispatched
AfterDispatchingCall == AfterFinishingCall \cup {update(This).q, load(This).q}

\* C17, for each event by itself: every started, progress, error and finished
\* event that a call dispatches carries 0 <= current <= total, and its total is
\* the number of assets in the queue when it is dispatched.
C17_EventCounts ==
  \A q \in AfterDispatchingCall :
    \A i \in 1..Len(q.events) :
      /\ 0 <= q.events[i].current
      /\ q.events[i].current <= q.events[i].total
      /\ q.events[i].total = Len(q.assets)

\* the four values of AssetLoader.Status
StatusValues == {Status[key] : key \in DOMAIN Status}

\* C18: the status of every descriptor of the queue is one of the four values
\* of the Status enumeration, and after a loader has called its failure
\* callback for an asset of the queue, getStatus(name) returns the failed value
\* of the enumeration.
C18_StatusIsEnumerated ==
  /\ \A o \in Range(assets) : heap[o].status \in StatusValues
  /\ \A c \in DOMAIN inflight :
       InQueue(This, c.name) =>
         getStatus(Landed(This, c, FALSE), c.name) = Status.LOAD_FAIL

\* names that begin with data: and hold no comma: data:, data:image/png and
\* data:a.png
MalformedDataURIs ==
  {Str("data:"),
   Str("data:") \o Str("image") \o <<"/">> \o Str("png"),
   Str("data:") \o Str("a.png")}

\* C19: add(name) of a name that begins with data: and holds no comma throws
\* and leaves the queue as it was: no descriptor is made, total, remaining, the
\* asset list and the task list are unchanged.
C19_MalformedDataURIRefused ==
  \A name \in MalformedDataURIs :
    /\ add(This, name).ret.kind = "throw"
    /\ add(This, name).q = This

\* C20: a callback settles only the descriptor whose load it was handed to.
\* When the asset of an outstanding load was removed and an asset of the same
\* name was added since, the callback of that load, landing, changes neither
\* the status of the new descriptor nor remaining, and dispatches no event.
C20_StaleCallbackSparesReAdded ==
  \A c \in DOMAIN inflight, success \in BOOLEAN :
    c.desc \notin Range(assets) /\ InQueue(This, c.name) =>
      LET q == Landed(This, c, success)
          new == getDescriptor(This, c.name)
      IN  /\ q.heap[new].status = heap[new].status
          /\ q.loadCount = loadCount
          /\ q.events = <<>>

\* started and finished alternate in the sequence sigs, which opens with what
\* dispatched last before: no signal dispatches twice in a row, and finished
\* does not dispatch before any started
Alternate(sigs) ==
  \A i \in 1..(Len(sigs) - 1) :
    /\ sigs[i + 1] # sigs[i]
    /\ sigs[i] = "none" => sigs[i + 1] = "started"

\* C21: started and finished events alternate over any sequence of calls: a
\* call dispatches started only when the last of the two to dispatch was not
\* started, and finished only when it was started; and the loading flag is true
\* exactly when the last of the two to dispatch was started.
C21_StartedFinishedAlternate ==
  /\ Truthy(loading) <=> lastSignal = "started"
  /\ \A q \in AfterDispatchingCall :
       Alternate(<<lastSignal>> \o Signals(q.events))

\* C22: total is the number of descriptors of the asset list, every descriptor
\* of the task list is in the asset list and has the status QUEUED, no two
\* descriptors of the task list have the same name, and remaining is at least
\* the length of the task list.
C22_ListsAndCountersAgree ==
  /\ totalItems = Len(assets)
  /\ \A o \in Range(tasks) :
       o \in Range(assets) /\ heap[o].status = Status.QUEUED
  /\ \A i, j \in 1..Len(tasks) :
       heap[tasks[i]].name = heap[tasks[j]].name => i = j
  /\ loadCount >= Len(tasks)

====
